---- MODULE Spec2Model ----
(***************************************************************************)
(* Model of the pharmacy agent: the in-memory Lookup Store (app/db.py),    *)
(* the Tool Layer (app/tools.py) and the orchestration generator           *)
(* stream_agent_reply with its helpers (app/agent.py).                     *)
(*                                                                         *)
(* Python strings that the code strips, lowercases or scans are modelled   *)
(* as sequences of one-character strings (names, user ids) or of code      *)
(* points (the user message); Python values of unknown type that arrive    *)
(* in tool arguments are tagged records (PStr, PInt).                      *)
(***************************************************************************)
EXTENDS Integers, Sequences, FiniteSets, TLC

\* ------------------------------------------------------------------------
\* Bounds of the model
\* ------------------------------------------------------------------------
\* Longest output-item sequence a decision response carries.
MaxItems == 2
\* Most events one backend stream delivers before it ends.
MaxEvents == 2

\* ------------------------------------------------------------------------
\* Strings: str.strip(), str.lower()
\* ------------------------------------------------------------------------
UpperChars == <<"A","B","C","D","E","F","G","H","I","J","K","L","M",
                "N","O","P","Q","R","S","T","U","V","W","X","Y","Z">>
LowerChars == <<"a","b","c","d","e","f","g","h","i","j","k","l","m",
                "n","o","p","q","r","s","t","u","v","w","x","y","z">>
Whitespace == {" ", "\t", "\n"}

LowerChar(c) ==
    IF \E i \in 1..Len(UpperChars) : UpperChars[i] = c
    THEN LowerChars[CHOOSE i \in 1..Len(UpperChars) : UpperChars[i] = c]
    ELSE c

\* str.lower()
Lower(s) == [i \in 1..Len(s) |-> LowerChar(s[i])]

RECURSIVE LStrip(_)
LStrip(s) ==
    IF s # <<>> /\ Head(s) \in Whitespace THEN LStrip(Tail(s)) ELSE s

RECURSIVE RStrip(_)
RStrip(s) ==
    IF s # <<>> /\ s[Len(s)] \in Whitespace
    THEN RStrip(SubSeq(s, 1, Len(s) - 1))
    ELSE s

\* str.strip()
Strip(s) == RStrip(LStrip(s))

\* ------------------------------------------------------------------------
\* Python values reaching the tools through **args
\* ------------------------------------------------------------------------
PStr(s) == [k |-> "str", s |-> s]
PInt(n) == [k |-> "int", n |-> n]
IsStr(v) == v.k = "str"
\* Python truthiness of a value: "" and 0 are falsy.
Truthy(v) == IF IsStr(v) THEN v.s # <<>> ELSE v.n # 0

\* ------------------------------------------------------------------------
\* app/db.py.  The key "name" of a user is the field uname, the key "name"
\* of a medication the field mname (one field name, one type of value).
\* ------------------------------------------------------------------------
Amoxicillin == <<"A","m","o","x","i","c","i","l","l","i","n">>
Metformin   == <<"M","e","t","f","o","r","m","i","n">>
Paracetamol == <<"P","a","r","a","c","e","t","a","m","o","l">>
Ibuprofen   == <<"I","b","u","p","r","o","f","e","n">>
Cetirizine  == <<"C","e","t","i","r","i","z","i","n","e">>

UserId(d) == <<"u","0",d[1],d[2]>>

DB_USERS == <<
    [user_id |-> UserId(<<"0","1">>), uname |-> "Einat Shvartz", prescriptions |-> <<Amoxicillin, Metformin>>],
    [user_id |-> UserId(<<"0","2">>), uname |-> "Guy Lurya",     prescriptions |-> <<>>],
    [user_id |-> UserId(<<"0","3">>), uname |-> "Noa Kasher",    prescriptions |-> <<Amoxicillin>>],
    [user_id |-> UserId(<<"0","4">>), uname |-> "Amit Wiez",     prescriptions |-> <<>>],
    [user_id |-> UserId(<<"0","5">>), uname |-> "Lea London",    prescriptions |-> <<Metformin>>],
    [user_id |-> UserId(<<"0","6">>), uname |-> "Maya Rubin",    prescriptions |-> <<>>],
    [user_id |-> UserId(<<"0","7">>), uname |-> "Tamar Levi",    prescriptions |-> <<Amoxicillin>>],
    [user_id |-> UserId(<<"0","8">>), uname |-> "Tair Cohen",    prescriptions |-> <<>>],
    [user_id |-> UserId(<<"0","9">>), uname |-> "Nicole Kaplan", prescriptions |-> <<Metformin>>],
    [user_id |-> UserId(<<"1","0">>), uname |-> "Omri Paz",      prescriptions |-> <<>>] >>

DB_MEDICATIONS == <<
    [mname |-> Paracetamol, active_ingredient |-> "Acetaminophen", requires_prescription |-> FALSE,
     dosage_instruction |-> [dose_amount |-> "500 mg", frequency |-> "every 4-6 hours",
                             max_daily |-> "4,000 mg in 24 hours"],
     usage_instructions |-> "Take with water.", safety_instructions |-> "acetaminophen allergy",
     stock |-> 42],
    [mname |-> Ibuprofen, active_ingredient |-> "Ibuprofen", requires_prescription |-> FALSE,
     dosage_instruction |-> [dose_amount |-> "200-400 mg", frequency |-> "every 6-8 hours",
                             max_daily |-> "1,200 mg in 24 hours"],
     usage_instructions |-> "Take with food or milk.", safety_instructions |-> "NSAID allergy",
     stock |-> 18],
    [mname |-> Amoxicillin, active_ingredient |-> "Amoxicillin", requires_prescription |-> TRUE,
     dosage_instruction |-> [dose_amount |-> "As prescribed", frequency |-> "As prescribed",
                             max_daily |-> "As prescribed"],
     usage_instructions |-> "Prescription-only.", safety_instructions |-> "penicillin allergy",
     stock |-> 10],
    [mname |-> Cetirizine, active_ingredient |-> "Cetirizine", requires_prescription |-> FALSE,
     dosage_instruction |-> [dose_amount |-> "10 mg", frequency |-> "once daily",
                             max_daily |-> "10 mg in 24 hours"],
     usage_instructions |-> "With or without food.", safety_instructions |-> "cetirizine allergy",
     stock |-> 0],
    [mname |-> Metformin, active_ingredient |-> "Metformin", requires_prescription |-> TRUE,
     dosage_instruction |-> [dose_amount |-> "As prescribed", frequency |-> "As prescribed",
                             max_daily |-> "As prescribed"],
     usage_instructions |-> "Prescription-only, with meals.", safety_instructions |-> "metformin allergy",
     stock |-> 6] >>

VARIABLES
    USERS,         \* app.db.USERS, the module-level list
    MEDICATIONS,   \* app.db.MEDICATIONS, the module-level list
    pc,            \* per invocation: where the generator stands
    user_id,       \* per invocation: argument user_id
    user_message,  \* per invocation: argument user_message (code points)
    user_res,      \* per invocation: result of get_user
    resp,          \* per invocation: resp.output of the decision call
    resp0,         \* per invocation: resp.output as the backend returned it
    tool_calls,    \* per invocation: _extract_function_calls(resp)
    tool_outputs,  \* per invocation: the function_call_output items
    idx,           \* per invocation: position of the tool loop in tool_calls
    yielded,       \* per invocation: fragments yielded so far, in order
    backend,       \* per invocation: requests made to the Model Backend
    dispatched,    \* per invocation: calls handed to _run_tool, in order
    events,        \* per invocation: events received from the open stream
    t_call,        \* a direct caller of the Tool Layer: the last call made, and
                   \* whether the object held is still as the call returned it
    t_result,      \* a direct caller of the Tool Layer: the object it holds
    t_shared       \* the parts of t_result that are objects of the store

vars == <<USERS, MEDICATIONS, pc, user_id, user_message, user_res, resp, resp0,
          tool_calls, tool_outputs, idx, yielded, backend, dispatched, events,
          t_call, t_result, t_shared>>

\* ------------------------------------------------------------------------
\* app/tools.py
\* ------------------------------------------------------------------------
NoneRec == [none |-> TRUE]
IsNone(x) == "none" \in DOMAIN x

\* _find_med_by_name over a medication list; name is a Python value.
\* Returns [raised |-> TRUE] for the AttributeError of a non-string.
FindMedIndex(meds, name_l) ==
    IF \E i \in 1..Len(meds) : Lower(meds[i].mname) = name_l
    THEN CHOOSE i \in 1..Len(meds) :
            /\ Lower(meds[i].mname) = name_l
            /\ \A j \in 1..(i - 1) : Lower(meds[j].mname) # name_l
    ELSE 0

\* The lookup with the name lowercased but not trimmed.
_find_med_by_name_NoStrip(meds, name) ==
    IF ~Truthy(name) THEN [raised |-> FALSE, val |-> NoneRec]
    ELSE IF ~IsStr(name) THEN [raised |-> TRUE, exc |-> "AttributeError: strip"]
    ELSE LET i == FindMedIndex(meds, Lower(name.s))
         IN  [raised |-> FALSE, val |-> IF i = 0 THEN NoneRec ELSE meds[i]]

\* _find_med_by_name(name) over the medication list meds.
_find_med_by_name(meds, name) ==
    IF ~Truthy(name) THEN [raised |-> FALSE, val |-> NoneRec]
    ELSE IF ~IsStr(name) THEN [raised |-> TRUE, exc |-> "AttributeError: strip"]
    ELSE LET i == FindMedIndex(meds, Lower(Strip(name.s)))
         IN  [raised |-> FALSE, val |-> IF i = 0 THEN NoneRec ELSE meds[i]]

FindUserIndex(users, uid) ==
    IF \E i \in 1..Len(users) : users[i].user_id = uid
    THEN CHOOSE i \in 1..Len(users) :
            /\ users[i].user_id = uid
            /\ \A j \in 1..(i - 1) : users[j].user_id # uid
    ELSE 0

_find_user_by_id(users, uid) ==
    IF ~Truthy(uid) THEN [raised |-> FALSE, val |-> NoneRec]
    ELSE IF ~IsStr(uid) THEN [raised |-> TRUE, exc |-> "AttributeError: strip"]
    ELSE LET i == FindUserIndex(users, Strip(uid.s))
         IN  [raised |-> FALSE, val |-> IF i = 0 THEN NoneRec ELSE users[i]]

ErrorEnvelope(flag, code, text, arg) ==
    IF flag = "found"
    THEN [found |-> FALSE, error |-> [code |-> code, message |-> [text |-> text, arg |-> arg]]]
    ELSE [ok |-> FALSE, error |-> [code |-> code, message |-> [text |-> text, arg |-> arg]]]

Returned(env) == [raised |-> FALSE, val |-> env]
Raised(msg) == [raised |-> TRUE, exc |-> msg]

\* get_user(user_id): user_id is the str the transport passes.
get_user(users, uid) ==
    LET u == _find_user_by_id(users, PStr(uid)).val
    IN  IF IsNone(u)
        THEN ErrorEnvelope("found", "UNKNOWN_USER", "User '%s' not found", PStr(uid))
        ELSE [found |-> TRUE,
              user |-> [user_id |-> u.user_id, uname |-> u.uname,
                        prescriptions |-> u.prescriptions]]

get_medication_by_name(meds, name) ==
    LET f == _find_med_by_name(meds, name)
    IN  IF f.raised THEN Raised(f.exc)
        ELSE IF IsNone(f.val)
        THEN Returned(ErrorEnvelope("found", "NOT_FOUND", "Medication '%s' not found", name))
        ELSE Returned([found |-> TRUE,
                       medication |-> [mname |-> f.val.mname,
                                       active_ingredient |-> f.val.active_ingredient,
                                       requires_prescription |-> f.val.requires_prescription,
                                       dosage_instruction |-> f.val.dosage_instruction,
                                       usage_instructions |-> f.val.usage_instructions,
                                       safety_instructions |-> f.val.safety_instructions,
                                       stock |-> f.val.stock]])

check_stock(meds, name) ==
    LET f == _find_med_by_name(meds, name)
    IN  IF f.raised THEN Raised(f.exc)
        ELSE IF IsNone(f.val)
        THEN Returned(ErrorEnvelope("found", "NOT_FOUND", "Medication '%s' not found", name))
        ELSE Returned([found |-> TRUE, mname |-> f.val.mname, stock |-> f.val.stock])

\* check_prescription looking the medication up before the user.
check_prescription_MedicationFirst(users, meds, uid, name) ==
    LET fm == _find_med_by_name(meds, name)
    IN  IF fm.raised THEN Raised(fm.exc)
        ELSE IF IsNone(fm.val)
        THEN Returned(ErrorEnvelope("ok", "NOT_FOUND", "Medication '%s' not found", name))
        ELSE LET fu == _find_user_by_id(users, uid)
             IN  IF fu.raised THEN Raised(fu.exc)
                 ELSE IF IsNone(fu.val)
                 THEN Returned(ErrorEnvelope("ok", "UNKNOWN_USER", "User '%s' not found", uid))
                 ELSE LET presc_set == {Lower(Strip(fu.val.prescriptions[i])) :
                                            i \in 1..Len(fu.val.prescriptions)}
                      IN  Returned([ok |-> TRUE, mname |-> fm.val.mname,
                                    requires_prescription |-> fm.val.requires_prescription,
                                    user_has_prescription |->
                                        Lower(Strip(fm.val.mname)) \in presc_set])

\* check_prescription with the prescription set left in its stored case.
check_prescription_CaseSensitive(users, meds, uid, name) ==
    LET fu == _find_user_by_id(users, uid)
    IN  IF fu.raised THEN Raised(fu.exc)
        ELSE IF IsNone(fu.val)
        THEN Returned(ErrorEnvelope("ok", "UNKNOWN_USER", "User '%s' not found", uid))
        ELSE LET fm == _find_med_by_name(meds, name)
             IN  IF fm.raised THEN Raised(fm.exc)
                 ELSE IF IsNone(fm.val)
                 THEN Returned(ErrorEnvelope("ok", "NOT_FOUND", "Medication '%s' not found", name))
                 ELSE LET presc_set == {Strip(fu.val.prescriptions[i]) :
                                            i \in 1..Len(fu.val.prescriptions)}
                      IN  Returned([ok |-> TRUE, mname |-> fm.val.mname,
                                    requires_prescription |-> fm.val.requires_prescription,
                                    user_has_prescription |->
                                        Lower(Strip(fm.val.mname)) \in presc_set])

check_prescription(users, meds, uid, name) ==
    LET fu == _find_user_by_id(users, uid)
    IN  IF fu.raised THEN Raised(fu.exc)
        ELSE IF IsNone(fu.val)
        THEN Returned(ErrorEnvelope("ok", "UNKNOWN_USER", "User '%s' not found", uid))
        ELSE LET fm == _find_med_by_name(meds, name)
             IN  IF fm.raised THEN Raised(fm.exc)
                 ELSE IF IsNone(fm.val)
                 THEN Returned(ErrorEnvelope("ok", "NOT_FOUND", "Medication '%s' not found", name))
                 ELSE LET presc_set == {Lower(Strip(fu.val.prescriptions[i])) :
                                            i \in 1..Len(fu.val.prescriptions)}
                      IN  Returned([ok |-> TRUE, mname |-> fm.val.mname,
                                    requires_prescription |-> fm.val.requires_prescription,
                                    user_has_prescription |->
                                        Lower(Strip(fm.val.mname)) \in presc_set])

\* ------------------------------------------------------------------------
\* app/agent.py: dispatcher and helpers
\* ------------------------------------------------------------------------
\* A Python dict is the sequence of its (key, value) pairs in insertion order.
Pair(key, val) == [key |-> key, val |-> val]
HasKey(m, key) == \E i \in 1..Len(m) : m[i].key = key
Get(m, key) == m[CHOOSE i \in 1..Len(m) : m[i].key = key].val
Keys(m) == {m[i].key : i \in 1..Len(m)}

\* Normalized arguments are a Python object: a dict, or what json.loads gave.
PyDict(m) == [ty |-> "dict", map |-> m]
PyOther(ty, has_uid) == [ty |-> ty, has_uid |-> has_uid]
IsDict(a) == a.ty = "dict"

\* f(**args) for a function with parameters params: TypeError unless args is
\* a mapping whose keys are exactly the parameters.
BindError(args, params) ==
    IF ~IsDict(args) THEN "TypeError: argument after ** must be a mapping"
    ELSE IF \E key \in Keys(args.map) : key \notin params
    THEN "TypeError: unexpected keyword argument"
    ELSE IF \E key \in params : ~HasKey(args.map, key)
    THEN "TypeError: missing required positional argument"
    ELSE "ok"

UnknownToolEnvelope(tool_name) ==
    [ok |-> FALSE,
     error |-> [code |-> "UNKNOWN_TOOL",
                message |-> [text |-> "Tool '%s' not implemented", tool |-> tool_name]]]

\* _run_tool(tool_name, args): the envelope returned, or the exception raised.
_run_tool(users, meds, tool_name, args) ==
    IF tool_name = "get_medication_by_name"
    THEN IF BindError(args, {"name"}) # "ok" THEN Raised(BindError(args, {"name"}))
         ELSE get_medication_by_name(meds, Get(args.map, "name"))
    ELSE IF tool_name = "check_stock"
    THEN IF BindError(args, {"name"}) # "ok" THEN Raised(BindError(args, {"name"}))
         ELSE check_stock(meds, Get(args.map, "name"))
    ELSE IF tool_name = "check_prescription"
    THEN IF BindError(args, {"user_id", "name"}) # "ok"
         THEN Raised(BindError(args, {"user_id", "name"}))
         ELSE check_prescription(users, meds, Get(args.map, "user_id"), Get(args.map, "name"))
    ELSE Returned(UnknownToolEnvelope(tool_name))

\* _extract_function_calls(resp): the function_call items of resp.output in
\* order.  ref is the position of the item whose arguments object the call
\* shares (Python copies the reference, not the object).
RECURSIVE ExtractFrom(_, _)
ExtractFrom(output, i) ==
    IF i > Len(output) THEN <<>>
    ELSE IF output[i].type = "function_call"
    THEN <<[name |-> output[i].name, arguments |-> output[i].arguments,
            call_id |-> output[i].call_id, ref |-> i]>> \o ExtractFrom(output, i + 1)
    ELSE ExtractFrom(output, i + 1)

\* The extraction with the calls in reverse order.
_extract_function_calls_Reversed(output) ==
    LET calls == ExtractFrom(output, 1)
    IN  [i \in 1..Len(calls) |-> calls[Len(calls) + 1 - i]]

\* _extract_function_calls(resp)
_extract_function_calls(output) == ExtractFrom(output, 1)

\* json.loads on a text: the Python object it encodes, or a raise.
JsonLoads(text) ==
    IF ~text.valid THEN Raised("JSONDecodeError")
    ELSE IF text.jt = "object" THEN Returned(PyDict(text.map))
    ELSE IF text.jt = "array" THEN Returned(PyOther("list", text.has_uid))
    ELSE IF text.jt = "string" THEN Returned(PyOther("str", text.has_uid))
    ELSE IF text.jt = "number" THEN Returned(PyOther("int", FALSE))
    ELSE Returned(PyOther("NoneType", FALSE))

\* _normalize_args(arguments)
_normalize_args(arguments) ==
    IF arguments.ty = "NoneType" THEN PyDict(<<>>)
    ELSE IF arguments.ty = "dict" THEN PyDict(arguments.map)
    ELSE IF arguments.ty = "str"
    THEN IF JsonLoads(arguments.text).raised THEN PyDict(<<>>)
         ELSE JsonLoads(arguments.text).val
    ELSE PyDict(<<>>)

\* The predicate looking at the first character only.
_looks_hebrew_FirstChar(text) == text # <<>> /\ 1424 <= text[1] /\ text[1] <= 1535

\* _looks_hebrew(text): some character lies in U+0590..U+05FF.
_looks_hebrew(text) == \E i \in 1..Len(text) : 1424 <= text[i] /\ text[i] <= 1535

\* json.dumps / json.loads of a result envelope.
JsonDumps(result) == [json |-> result]
JsonLoadsOutput(out) == out.json

\* result.get("error", {}).get("code")
ErrorCode(result) ==
    IF "error" \in DOMAIN result THEN result.error.code ELSE "None"

\* ------------------------------------------------------------------------
\* Inputs: requests, decision responses, stream events
\* ------------------------------------------------------------------------
Requests == {1, 2}

U001 == UserId(<<"0","1">>)
U002Padded == <<" ">> \o UserId(<<"0","2">>) \o <<" ">>
U003 == UserId(<<"0","3">>)
U999 == <<"u","9","9","9">>
UserIds == {U001, U002Padded, U999, <<>>}

\* "hi" and a Hebrew word, as code points.
EnglishMessage == <<104, 105>>
HebrewMessage == <<1513, 1500, 1493, 1501>>
Messages == {EnglishMessage, HebrewMessage}

Aspirin == <<"A","s","p","i","r","i","n">>
ParacetamolPadded == <<" ","p","A","r","a","c","e","t","a","m","o","l"," ">>

\* Raw argument payloads of a function_call item.
RawNone == [ty |-> "NoneType"]
RawDict(m) == [ty |-> "dict", map |-> m]
RawInt == [ty |-> "int"]
TextObject(m) == [ty |-> "str", text |-> [valid |-> TRUE, jt |-> "object", map |-> m]]
TextArray == [ty |-> "str", text |-> [valid |-> TRUE, jt |-> "array", has_uid |-> FALSE]]
TextNull == [ty |-> "str", text |-> [valid |-> TRUE, jt |-> "null"]]
TextInvalid == [ty |-> "str", text |-> [valid |-> FALSE]]

FunctionCall(name, arguments) ==
    [type |-> "function_call", name |-> name, arguments |-> arguments, call_id |-> 0]
MessageItem == [type |-> "message", role |-> "assistant", content |-> [text |-> "..."]]

\* The output items a decision response is built from.
Items == {
    MessageItem,
    FunctionCall("get_medication_by_name", TextObject(<<Pair("name", PStr(ParacetamolPadded))>>)),
    FunctionCall("check_stock", TextObject(<<Pair("name", PStr(Aspirin))>>)),
    FunctionCall("check_prescription", TextObject(<<Pair("name", PStr(Amoxicillin))>>)),
    FunctionCall("check_prescription", RawDict(<<Pair("name", PStr(Amoxicillin))>>)),
    FunctionCall("check_prescription",
                 TextObject(<<Pair("user_id", PStr(U003)), Pair("name", PStr(Amoxicillin))>>)),
    FunctionCall("check_prescription",
                 TextObject(<<Pair("user_id", PStr(U999)), Pair("name", PStr(Aspirin))>>)),
    FunctionCall("check_prescription", TextNull),
    FunctionCall("check_prescription", RawInt),
    FunctionCall("check_stock", TextInvalid),
    FunctionCall("check_stock", TextArray),
    FunctionCall("get_medication_by_name", TextObject(<<Pair("name", PInt(5))>>)),
    FunctionCall("send_email", RawNone) }

\* The backend gives the function-call items of one response distinct call
\* ids: here 100 + the number of items that follow.
WithCallIds(out) ==
    [i \in 1..Len(out) |->
        IF out[i].type = "function_call"
        THEN [out[i] EXCEPT !.call_id = 100 + Len(out) - i]
        ELSE out[i]]

SeqsUpTo(S, n) == UNION {[1..k -> S] : k \in 0..n}
Outputs == {WithCallIds(out) : out \in SeqsUpTo(Items, MaxItems)}

Delta(text) == [type |-> "response.output_text.delta", delta |-> text]
ErrorEvent == [type |-> "response.error"]
OtherEvent == [type |-> "response.completed"]
StreamEvents == {Delta("a"), Delta("b"), ErrorEvent, OtherEvent}

\* ------------------------------------------------------------------------
\* app/agent.py: stream_agent_reply
\* ------------------------------------------------------------------------
Lang(message) == IF _looks_hebrew(message) THEN "he" ELSE "en"
UserNotFoundMessage(message, uid) == [kind |-> "user_not_found", lang |-> Lang(message), uid |-> uid]
MedNotFoundMessage(message) == [kind |-> "med_not_found", lang |-> Lang(message)]
StreamErrorMessage == [kind |-> "stream_error"]
InternalErrorMessage == [kind |-> "internal_error"]
DeltaFragment(text) == [kind |-> "delta", text |-> text]

base_input(r) ==
    << [role |-> "system", content |-> [prompt |-> "SYSTEM_PROMPT"]],
       [role |-> "system",
        content |-> [ctx_user_id |-> user_id[r], ctx_name |-> user_res[r].user.uname,
                     ctx_prescriptions |-> user_res[r].user.prescriptions]],
       [role |-> "user", content |-> [msg |-> user_message[r]]] >>

DecisionRequest(r) ==
    [op |-> "create", input |-> base_input(r), tools |-> "TOOLS", tool_choice |-> "auto"]
\* Direct stream request that attaches the tool schemas.
DirectStreamRequest_WithTools(r) ==
    [op |-> "stream", input |-> base_input(r), tools |-> "TOOLS", tool_choice |-> "auto"]

DirectStreamRequest(r) ==
    [op |-> "stream", input |-> base_input(r), tools |-> "absent", tool_choice |-> "absent"]

final_input(r) == base_input(r) \o resp[r] \o tool_outputs[r]

FinalStreamRequest(r) ==
    [op |-> "stream", input |-> final_input(r), tools |-> "TOOLS", tool_choice |-> "none"]

\* Gate without the return after the user-not-found message.
Gate_NoReturn(r) ==
    /\ pc[r] = "start"
    /\ user_res' = [user_res EXCEPT ![r] = get_user(USERS, user_id[r])]
    /\ yielded' = [yielded EXCEPT
                      ![r] = IF user_res'[r].found THEN @
                             ELSE Append(@, UserNotFoundMessage(user_message[r], user_id[r]))]
    /\ pc' = [pc EXCEPT ![r] = "decide"]
    /\ UNCHANGED <<t_call, t_result, t_shared, USERS, MEDICATIONS, user_id, user_message, resp, resp0, tool_calls,
                   tool_outputs, idx, backend, dispatched, events>>

\* Step 0: the user gate.
Gate(r) ==
    /\ pc[r] = "start"
    /\ user_res' = [user_res EXCEPT ![r] = get_user(USERS, user_id[r])]
    /\ IF ~user_res'[r].found
       THEN /\ yielded' = [yielded EXCEPT
                              ![r] = Append(@, UserNotFoundMessage(user_message[r], user_id[r]))]
            /\ pc' = [pc EXCEPT ![r] = "done"]
       ELSE /\ pc' = [pc EXCEPT ![r] = "decide"]
            /\ UNCHANGED yielded
    /\ UNCHANGED <<t_call, t_result, t_shared, USERS, MEDICATIONS, user_id, user_message, resp, resp0, tool_calls,
                   tool_outputs, idx, backend, dispatched, events>>

\* Steps 1-3: the decision call, its response drawn from outputs; with no
\* tool call, the direct stream opens.
DecisionCallFrom(r, outputs) ==
    /\ pc[r] = "decide"
    /\ \E out \in outputs :
          /\ resp' = [resp EXCEPT ![r] = out]
          /\ resp0' = [resp0 EXCEPT ![r] = out]
          /\ tool_calls' = [tool_calls EXCEPT ![r] = _extract_function_calls(out)]
          /\ IF _extract_function_calls(out) = <<>>
             THEN /\ backend' = [backend EXCEPT
                                    ![r] = @ \o <<DecisionRequest(r), DirectStreamRequest(r)>>]
                  /\ pc' = [pc EXCEPT ![r] = "stream_direct"]
             ELSE /\ backend' = [backend EXCEPT ![r] = Append(@, DecisionRequest(r))]
                  /\ pc' = [pc EXCEPT ![r] = "tools"]
    /\ idx' = [idx EXCEPT ![r] = 1]
    /\ UNCHANGED <<t_call, t_result, t_shared, USERS, MEDICATIONS, user_id, user_message, user_res, tool_outputs,
                   yielded, dispatched, events>>

DecisionCall(r) == DecisionCallFrom(r, Outputs)

\* Injection of the user id with its surrounding whitespace removed.
InjectUserId_Stripped(name, args, uid) ==
    IF name # "check_prescription" THEN Returned(args)
    ELSE IF args.ty \in {"int", "NoneType"}
    THEN Raised("TypeError: argument of type is not iterable")
    ELSE IF IsDict(args)
    THEN IF HasKey(args.map, "user_id") THEN Returned(args)
         ELSE Returned(PyDict(Append(args.map, Pair("user_id", PStr(Strip(uid))))))
    ELSE IF args.has_uid THEN Returned(args)
    ELSE Raised("TypeError: object does not support item assignment")

\* Injection that sets user_id whether or not the arguments carry one.
InjectUserId_Overwrite(name, args, uid) ==
    IF name # "check_prescription" THEN Returned(args)
    ELSE IF args.ty \in {"int", "NoneType"}
    THEN Raised("TypeError: argument of type is not iterable")
    ELSE IF IsDict(args)
    THEN Returned(PyDict([i \in 1..Len(args.map) |->
                             IF args.map[i].key = "user_id"
                             THEN Pair("user_id", PStr(uid)) ELSE args.map[i]]
                         \o (IF HasKey(args.map, "user_id") THEN <<>>
                             ELSE <<Pair("user_id", PStr(uid))>>)))
    ELSE IF args.has_uid THEN Returned(args)
    ELSE Raised("TypeError: object does not support item assignment")

\* "user_id" not in args, then args["user_id"] = user_id (agent.py 218-219):
\* the arguments dispatched, or the TypeError of a non-mapping.
InjectUserId(name, args, uid) ==
    IF name # "check_prescription" THEN Returned(args)
    ELSE IF args.ty \in {"int", "NoneType"}
    THEN Raised("TypeError: argument of type is not iterable")
    ELSE IF IsDict(args)
    THEN IF HasKey(args.map, "user_id") THEN Returned(args)
         ELSE Returned(PyDict(Append(args.map, Pair("user_id", PStr(uid)))))
    ELSE IF args.has_uid THEN Returned(args)
    ELSE Raised("TypeError: object does not support item assignment")

ToolErrorEnvelope(exc) ==
    [ok |-> FALSE, error |-> [code |-> "TOOL_ERROR", message |-> [text |-> exc]]]

\* Call site that reports a raised exception as an unknown tool.
ResultOf_WrongCode(outcome) ==
    IF outcome.raised THEN UnknownToolEnvelope(outcome.exc) ELSE outcome.val

\* try: result = _run_tool(name, args) / except Exception (agent.py 223-233)
ResultOf(outcome) == IF outcome.raised THEN ToolErrorEnvelope(outcome.exc) ELSE outcome.val

\* Output item that carries the call's position instead of its call id.
OutputItem_PositionId(call, result) ==
    [type |-> "function_call_output", call_id |-> call.ref, output |-> JsonDumps(result)]

OutputItem(call, result) ==
    [type |-> "function_call_output", call_id |-> call.call_id, output |-> JsonDumps(result)]

\* A dict payload is the object _normalize_args returns, so the injection
\* writes into the arguments of the response item and of the extracted call.
SharedWrite(items, pos, ty, args) ==
    IF ty = "dict" THEN [items EXCEPT ![pos].arguments = RawDict(args.map)] ELSE items

\* Tool loop that collects the output items in one list shared by all
\* invocations (a module-level tool_outputs).
ToolStep_SharedOutputs(r) ==
    /\ pc[r] = "tools"
    /\ idx[r] <= Len(tool_calls[r])
    /\ LET call == tool_calls[r][idx[r]]
           norm == _normalize_args(call.arguments)
           inj  == InjectUserId(call.name, norm, user_id[r])
       IN  IF inj.raised
           THEN /\ pc' = [pc EXCEPT ![r] = "raised"]
                /\ UNCHANGED <<resp, tool_calls, tool_outputs, idx, dispatched>>
           ELSE LET outcome == _run_tool(USERS, MEDICATIONS, call.name, inj.val)
                IN  /\ dispatched' = [dispatched EXCEPT
                           ![r] = Append(@, [pos |-> idx[r], name |-> call.name,
                                             normalized |-> norm, args |-> inj.val,
                                             outcome |-> outcome])]
                    /\ tool_outputs' = [o \in Requests |->
                           Append(tool_outputs[o], OutputItem(call, ResultOf(outcome)))]
                    /\ resp' = [resp EXCEPT
                           ![r] = SharedWrite(@, call.ref, call.arguments.ty, inj.val)]
                    /\ tool_calls' = [tool_calls EXCEPT
                           ![r] = SharedWrite(@, idx[r], call.arguments.ty, inj.val)]
                    /\ idx' = [idx EXCEPT ![r] = @ + 1]
                    /\ pc' = [pc EXCEPT
                           ![r] = IF idx[r] + 1 > Len(tool_calls[r]) THEN "scan" ELSE "tools"]
    /\ UNCHANGED <<t_call, t_result, t_shared, USERS, MEDICATIONS, user_id, user_message, user_res, resp0,
                   yielded, backend, events>>

\* Step 4: one turn of the tool loop.
ToolStep(r) ==
    /\ pc[r] = "tools"
    /\ idx[r] <= Len(tool_calls[r])
    /\ LET call == tool_calls[r][idx[r]]
           norm == _normalize_args(call.arguments)
           inj  == InjectUserId(call.name, norm, user_id[r])
       IN  IF inj.raised
           THEN /\ pc' = [pc EXCEPT ![r] = "raised"]
                /\ UNCHANGED <<resp, tool_calls, tool_outputs, idx, dispatched>>
           ELSE LET outcome == _run_tool(USERS, MEDICATIONS, call.name, inj.val)
                IN  /\ dispatched' = [dispatched EXCEPT
                           ![r] = Append(@, [pos |-> idx[r], name |-> call.name,
                                             normalized |-> norm, args |-> inj.val,
                                             outcome |-> outcome])]
                    /\ tool_outputs' = [tool_outputs EXCEPT
                           ![r] = Append(@, OutputItem(call, ResultOf(outcome)))]
                    /\ resp' = [resp EXCEPT
                           ![r] = SharedWrite(@, call.ref, call.arguments.ty, inj.val)]
                    /\ tool_calls' = [tool_calls EXCEPT
                           ![r] = SharedWrite(@, idx[r], call.arguments.ty, inj.val)]
                    /\ idx' = [idx EXCEPT ![r] = @ + 1]
                    /\ pc' = [pc EXCEPT
                           ![r] = IF idx[r] + 1 > Len(tool_calls[r]) THEN "scan" ELSE "tools"]
    /\ UNCHANGED <<t_call, t_result, t_shared, USERS, MEDICATIONS, user_id, user_message, user_res, resp0,
                   yielded, backend, events>>

\* The scan looking at the first collected output only.
HasNotFound_FirstOnly(outs) ==
    outs # <<>> /\ ErrorCode(JsonLoadsOutput(outs[1].output)) = "NOT_FOUND"

\* any(... == "NOT_FOUND" for out in tool_outputs)
HasNotFound(outs) ==
    \E i \in 1..Len(outs) : ErrorCode(JsonLoadsOutput(outs[i].output)) = "NOT_FOUND"

\* Step 5 with the test of resp.output inverted.
ScanStep_InvertedTest(r) ==
    /\ pc[r] = "scan"
    /\ IF HasNotFound(tool_outputs[r])
       THEN /\ yielded' = [yielded EXCEPT ![r] = Append(@, MedNotFoundMessage(user_message[r]))]
            /\ pc' = [pc EXCEPT ![r] = "done"]
            /\ UNCHANGED backend
       ELSE IF resp[r] # <<>>
       THEN /\ yielded' = [yielded EXCEPT ![r] = Append(@, InternalErrorMessage)]
            /\ pc' = [pc EXCEPT ![r] = "done"]
            /\ UNCHANGED backend
       ELSE /\ backend' = [backend EXCEPT ![r] = Append(@, FinalStreamRequest(r))]
            /\ pc' = [pc EXCEPT ![r] = "stream_final"]
            /\ UNCHANGED yielded
    /\ UNCHANGED <<t_call, t_result, t_shared, USERS, MEDICATIONS, user_id, user_message, user_res, resp, resp0,
                   tool_calls, tool_outputs, idx, dispatched, events>>

\* The NOT_FOUND scan, then step 5: the final stream opens.
ScanStep(r) ==
    /\ pc[r] = "scan"
    /\ IF HasNotFound(tool_outputs[r])
       THEN /\ yielded' = [yielded EXCEPT ![r] = Append(@, MedNotFoundMessage(user_message[r]))]
            /\ pc' = [pc EXCEPT ![r] = "done"]
            /\ UNCHANGED backend
       ELSE IF resp[r] = <<>>
       THEN /\ yielded' = [yielded EXCEPT ![r] = Append(@, InternalErrorMessage)]
            /\ pc' = [pc EXCEPT ![r] = "done"]
            /\ UNCHANGED backend
       ELSE /\ backend' = [backend EXCEPT ![r] = Append(@, FinalStreamRequest(r))]
            /\ pc' = [pc EXCEPT ![r] = "stream_final"]
            /\ UNCHANGED yielded
    /\ UNCHANGED <<t_call, t_result, t_shared, USERS, MEDICATIONS, user_id, user_message, user_res, resp, resp0,
                   tool_calls, tool_outputs, idx, dispatched, events>>

Streaming(r) == pc[r] \in {"stream_direct", "stream_final"}

\* Stream loop without the return after the apology.
StreamEvent_NoReturn(r) ==
    /\ Streaming(r)
    /\ Len(events[r]) < MaxEvents
    /\ \E event \in StreamEvents :
          /\ events' = [events EXCEPT ![r] = Append(@, event)]
          /\ IF event.type = "response.output_text.delta"
             THEN yielded' = [yielded EXCEPT ![r] = Append(@, DeltaFragment(event.delta))]
             ELSE IF event.type = "response.error"
             THEN yielded' = [yielded EXCEPT ![r] = Append(@, StreamErrorMessage)]
             ELSE UNCHANGED yielded
    /\ UNCHANGED <<t_call, t_result, t_shared, USERS, MEDICATIONS, pc, user_id, user_message, user_res, resp, resp0,
                   tool_calls, tool_outputs, idx, backend, dispatched>>

\* for event in stream: one event, drawn from stream_events, arrives
\* (agent.py 202-207, 284-289).
StreamEventFrom(r, stream_events) ==
    /\ Streaming(r)
    /\ Len(events[r]) < MaxEvents
    /\ \E event \in stream_events :
          /\ events' = [events EXCEPT ![r] = Append(@, event)]
          /\ IF event.type = "response.output_text.delta"
             THEN /\ yielded' = [yielded EXCEPT ![r] = Append(@, DeltaFragment(event.delta))]
                  /\ UNCHANGED pc
             ELSE IF event.type = "response.error"
             THEN /\ yielded' = [yielded EXCEPT ![r] = Append(@, StreamErrorMessage)]
                  /\ pc' = [pc EXCEPT ![r] = "done"]
             ELSE UNCHANGED <<yielded, pc>>
    /\ UNCHANGED <<t_call, t_result, t_shared, USERS, MEDICATIONS, user_id, user_message, user_res, resp, resp0,
                   tool_calls, tool_outputs, idx, backend, dispatched>>

StreamEvent(r) == StreamEventFrom(r, StreamEvents)

\* The stream is exhausted: the loop and the generator end.
StreamEnd(r) ==
    /\ Streaming(r)
    /\ pc' = [pc EXCEPT ![r] = "done"]
    /\ UNCHANGED <<t_call, t_result, t_shared, USERS, MEDICATIONS, user_id, user_message, user_res, resp, resp0,
                   tool_calls, tool_outputs, idx, yielded, backend, dispatched, events>>

Step(r) ==
    \/ Gate(r)
    \/ DecisionCall(r)
    \/ ToolStep(r)
    \/ ScanStep(r)
    \/ StreamEvent(r)
    \/ StreamEnd(r)

\* ------------------------------------------------------------------------
\* Specifications
\* ------------------------------------------------------------------------
\* The requests in active are invoked, with arguments from user_ids and
\* messages; the others never are.
InitWith(active, user_ids, messages) ==
    /\ USERS = DB_USERS
    /\ MEDICATIONS = DB_MEDICATIONS
    /\ pc = [r \in Requests |-> IF r \in active THEN "start" ELSE "idle"]
    /\ user_id \in [Requests -> user_ids \cup {<<>>}]
    /\ user_message \in [Requests -> messages \cup {EnglishMessage}]
    /\ \A r \in active : user_id[r] \in user_ids /\ user_message[r] \in messages
    /\ \A r \in Requests \ active : user_id[r] = <<>> /\ user_message[r] = EnglishMessage
    /\ user_res = [r \in Requests |-> NoneRec]
    /\ resp = [r \in Requests |-> <<>>]
    /\ resp0 = [r \in Requests |-> <<>>]
    /\ tool_calls = [r \in Requests |-> <<>>]
    /\ tool_outputs = [r \in Requests |-> <<>>]
    /\ idx = [r \in Requests |-> 1]
    /\ yielded = [r \in Requests |-> <<>>]
    /\ backend = [r \in Requests |-> <<>>]
    /\ dispatched = [r \in Requests |-> <<>>]
    /\ events = [r \in Requests |-> <<>>]
    /\ t_call = [op |-> "none"]
    /\ t_result = NoneRec
    /\ t_shared = {}

InitFor(active) == InitWith(active, UserIds, Messages)

\* One invocation of stream_agent_reply.
Init == InitFor({1})
Next == Step(1)
Spec == Init /\ [][Next]_vars

\* ------------------------------------------------------------------------
\* Properties
\* ------------------------------------------------------------------------
Invoked(r) == pc[r] \notin {"idle", "start"}
Ended(r) == pc[r] \in {"done", "raised"}
\* item.get("type"): the base input items carry no type.
ItemType(item) == IF "type" \in DOMAIN item THEN item.type ELSE "None"
StreamRequests(r) == {k \in 1..Len(backend[r]) : backend[r][k].op = "stream"}
DecisionRequests(r) == {k \in 1..Len(backend[r]) : backend[r][k].op = "create"}
FinalRequests(r) ==
    {k \in 1..Len(backend[r]) : backend[r][k].op = "stream" /\ backend[r][k].tool_choice = "none"}
FunctionCallPositions(items) == {i \in 1..Len(items) : ItemType(items[i]) = "function_call"}
OutputPositions(items) == {i \in 1..Len(items) : ItemType(items[i]) = "function_call_output"}
KnownToolNames == {"get_medication_by_name", "check_stock", "check_prescription"}

\* C1: for a user id the Lookup Store does not find, the invocation yields
\* the user-not-found message as its only fragment and completes, with no
\* request to the Model Backend and no tool dispatched.
C1_UnknownUserGate ==
    \A r \in Requests :
        (Invoked(r) /\ ~get_user(USERS, user_id[r]).found) =>
            /\ pc[r] = "done"
            /\ yielded[r] = <<UserNotFoundMessage(user_message[r], user_id[r])>>
            /\ backend[r] = <<>>
            /\ dispatched[r] = <<>>

C1_Witness ==
    \E r \in Requests :
        /\ pc[r] = "done"
        /\ user_id[r] = U999
        /\ Len(yielded[r]) = 1
        /\ yielded[r][1].kind = "user_not_found"

\* C2: once an invocation whose decision call returned tool calls has ended
\* with a NOT_FOUND envelope among its collected outputs, it has yielded the
\* medication-not-found apology as its only fragment, has opened no stream,
\* and has dispatched every tool call of the turn.
C2_NotFoundShortCircuit ==
    \A r \in Requests :
        (Ended(r) /\ tool_calls[r] # <<>> /\ HasNotFound(tool_outputs[r])) =>
            /\ yielded[r] = <<MedNotFoundMessage(user_message[r])>>
            /\ StreamRequests(r) = {}
            /\ Len(dispatched[r]) = Len(tool_calls[r])

\* C3: in the input of every final streaming request, each call id of a
\* function-call item the decision call returned is the call id of exactly
\* one function_call_output item, and each function_call_output item's call
\* id is that of a function-call item earlier in the input.
C3_CallIdRoundTrip ==
    \A r \in Requests : \A k \in FinalRequests(r) :
        LET input == backend[r][k].input
        IN  /\ \A i \in FunctionCallPositions(resp0[r]) :
                  Cardinality({j \in OutputPositions(input) :
                                  input[j].call_id = resp0[r][i].call_id}) = 1
            /\ \A j \in OutputPositions(input) :
                  \E i \in FunctionCallPositions(input) :
                      i < j /\ input[i].call_id = input[j].call_id

C3_Witness ==
    \E r \in Requests : \E k \in FinalRequests(r) :
        Cardinality(FunctionCallPositions(resp0[r])) >= 2

\* C4: a fault while handling one tool call becomes a TOOL_ERROR envelope of
\* that call only: no exception leaves the invocation, and when the tool loop
\* is over every call has been dispatched and has its own output item.
C4_ErrorIsolation ==
    \A r \in Requests :
        /\ pc[r] # "raised"
        /\ (pc[r] \in {"scan", "stream_final", "done"} /\ tool_calls[r] # <<>>) =>
              /\ Len(dispatched[r]) = Len(tool_calls[r])
              /\ Len(tool_outputs[r]) = Len(tool_calls[r])
              /\ \A i \in 1..Len(tool_calls[r]) :
                    /\ tool_outputs[r][i].call_id = tool_calls[r][i].call_id
                    /\ dispatched[r][i].outcome.raised =>
                          ErrorCode(JsonLoadsOutput(tool_outputs[r][i].output)) = "TOOL_ERROR"

\* C5 as stated: _run_tool returns an envelope for every name and every
\* argument mapping, and never raises.
C5_RunToolNeverRaises ==
    \A r \in Requests : \A i \in 1..Len(dispatched[r]) :
        ~dispatched[r][i].outcome.raised

\* C5 amended: _run_tool raises on a failed binding or a failed tool
\* operation, and the call site in stream_agent_reply turns that into the
\* TOOL_ERROR envelope carrying the exception's message; a name that is none
\* of the three tools gives the UNKNOWN_TOOL envelope without a raise; a
\* returned envelope is collected as returned.
C5_CallSiteEnvelope ==
    \A r \in Requests : \A i \in 1..Len(dispatched[r]) :
        LET d == dispatched[r][i]
            envelope == JsonLoadsOutput(tool_outputs[r][i].output)
        IN  /\ i <= Len(tool_outputs[r])
            /\ d.outcome.raised => envelope = ToolErrorEnvelope(d.outcome.exc)
            /\ ~d.outcome.raised => envelope = d.outcome.val
            /\ d.name \notin KnownToolNames =>
                  ~d.outcome.raised /\ ErrorCode(envelope) = "UNKNOWN_TOOL"

C5_Witness ==
    \E r \in Requests : \E i, j \in 1..Len(dispatched[r]) :
        /\ dispatched[r][i].outcome.raised
        /\ ErrorCode(JsonLoadsOutput(tool_outputs[r][i].output)) = "TOOL_ERROR"
        /\ dispatched[r][j].name = "send_email"

\* C6: a check_prescription call whose normalized arguments are a mapping
\* without the key user_id is dispatched, and dispatched with user_id equal
\* to the user_id argument of this invocation.
C6_InjectedUserId ==
    \A r \in Requests :
        /\ \A i \in 1..Len(dispatched[r]) :
              LET d == dispatched[r][i]
              IN  (/\ d.name = "check_prescription"
                   /\ IsDict(d.normalized)
                   /\ ~HasKey(d.normalized.map, "user_id")) =>
                      /\ IsDict(d.args)
                      /\ HasKey(d.args.map, "user_id")
                      /\ Get(d.args.map, "user_id") = PStr(user_id[r])
                      /\ \A key \in Keys(d.normalized.map) :
                            Get(d.args.map, key) = Get(d.normalized.map, key)
        /\ pc[r] = "raised" => ~IsDict(_normalize_args(tool_calls[r][idx[r]].arguments))
        /\ (pc[r] \in {"scan", "stream_final", "done"} /\ tool_calls[r] # <<>>) =>
              Len(dispatched[r]) = Len(tool_calls[r])

C6_Witness ==
    \E r \in Requests : \E i \in 1..Len(dispatched[r]) :
        /\ user_id[r] = U002Padded
        /\ dispatched[r][i].name = "check_prescription"
        /\ IsDict(dispatched[r][i].normalized)
        /\ ~HasKey(dispatched[r][i].normalized.map, "user_id")
        /\ Get(dispatched[r][i].args.map, "user_id") = PStr(U002Padded)

\* C7: once the tool loop of a turn with tool calls is over or the
\* invocation has ended, and no collected envelope carries NOT_FOUND, the
\* final streaming request has been issued with every collected envelope in
\* a function_call_output item of its input, one per tool call, and nothing
\* but relayed stream output has been yielded.
C7_ErrorsHandedBack ==
    \A r \in Requests :
        ((Ended(r) \/ pc[r] = "stream_final") /\ tool_calls[r] # <<>>
            /\ ~HasNotFound(tool_outputs[r])) =>
            /\ FinalRequests(r) # {}
            /\ Len(tool_outputs[r]) = Len(tool_calls[r])
            /\ \A k \in FinalRequests(r) : \A i \in 1..Len(tool_outputs[r]) :
                  \E j \in OutputPositions(backend[r][k].input) :
                      backend[r][k].input[j] = tool_outputs[r][i]
            /\ \A i \in 1..Len(yielded[r]) : yielded[r][i].kind \in {"delta", "stream_error"}

\* The fragments a stream's events are relayed as: its text deltas in
\* order up to the first error event, then the one apology.
RECURSIVE Relay(_)
Relay(evs) ==
    IF evs = <<>> THEN <<>>
    ELSE IF Head(evs).type = "response.output_text.delta"
    THEN <<DeltaFragment(Head(evs).delta)>> \o Relay(Tail(evs))
    ELSE IF Head(evs).type = "response.error" THEN <<StreamErrorMessage>>
    ELSE Relay(Tail(evs))

\* C8: in both streaming passes the fragments yielded are the stream's text
\* deltas in arrival order; the first error event adds the one apology, ends
\* the invocation with no later event consumed, and no request beyond the
\* one decision call and the one stream is made.
C8_StreamRelay ==
    \A r \in Requests :
        StreamRequests(r) # {} =>
            /\ yielded[r] = Relay(events[r])
            /\ \A i \in 1..Len(events[r]) :
                  events[r][i].type = "response.error" => (i = Len(events[r]) /\ pc[r] = "done")
            /\ Cardinality(StreamRequests(r)) = 1
            /\ Cardinality(DecisionRequests(r)) = 1
            /\ Len(backend[r]) = 2

C8_Witness ==
    \E r \in Requests :
        /\ FinalRequests(r) # {}
        /\ events[r] = <<Delta("b"), ErrorEvent>>
        /\ yielded[r] = <<DeltaFragment("b"), StreamErrorMessage>>
        /\ pc[r] = "done"

\* C9: for a known user whose decision response holds no function-call
\* item, no tool is dispatched and exactly one streaming request is issued,
\* with the input of the decision call and no tool schemas.
C9_NoToolPath ==
    \A r \in Requests :
        (/\ pc[r] \notin {"idle", "start", "decide"}
         /\ get_user(USERS, user_id[r]).found
         /\ FunctionCallPositions(resp0[r]) = {}) =>
            /\ dispatched[r] = <<>>
            /\ tool_outputs[r] = <<>>
            /\ Len(backend[r]) = 2
            /\ backend[r][1].op = "create"
            /\ backend[r][2].op = "stream"
            /\ backend[r][2].input = backend[r][1].input
            /\ backend[r][2].tools = "absent"
            /\ backend[r][2].tool_choice = "absent"

C9_Witness ==
    \E r \in Requests :
        /\ pc[r] = "done"
        /\ resp0[r] = <<MessageItem>>
        /\ Len(backend[r]) = 2
        /\ yielded[r] = <<DeltaFragment("a")>>

\* C10: the input of the final streaming request is the base input of the
\* decision call, then the output items as the decision call returned them,
\* then one function_call_output item per function-call item in the same
\* order; the request is made with tool choice "none".
C10_FinalInput ==
    \A r \in Requests : \A k \in FinalRequests(r) :
        LET input == backend[r][k].input
            base == backend[r][1].input
            calls == _extract_function_calls(resp0[r])
            tail == SubSeq(input, Len(base) + Len(resp0[r]) + 1, Len(input))
        IN  /\ backend[r][1].op = "create"
            /\ backend[r][k].tool_choice = "none"
            /\ Len(input) = Len(base) + Len(resp0[r]) + Len(calls)
            /\ SubSeq(input, 1, Len(base)) = base
            /\ SubSeq(input, Len(base) + 1, Len(base) + Len(resp0[r])) = resp0[r]
            /\ \A i \in 1..Len(calls) :
                  /\ tail[i].type = "function_call_output"
                  /\ tail[i].call_id = calls[i].call_id

\* ------------------------------------------------------------------------
\* Two invocations of stream_agent_reply, interleaved at every step
\* ------------------------------------------------------------------------
PairUserIds == {U001, U002Padded, U999}
PairOutputs ==
    {WithCallIds(out) : out \in {
        <<>>,
        <<FunctionCall("check_stock", TextObject(<<Pair("name", PStr(Aspirin))>>))>>,
        <<FunctionCall("check_prescription", RawDict(<<Pair("name", PStr(Amoxicillin))>>))>>,
        <<FunctionCall("check_prescription", TextObject(<<Pair("name", PStr(Amoxicillin))>>)),
          FunctionCall("send_email", RawNone)>>,
        <<FunctionCall("check_prescription", TextNull)>> }}
PairEvents == {Delta("a"), ErrorEvent}

PairStep(r) ==
    \/ Gate(r)
    \/ DecisionCallFrom(r, PairOutputs)
    \/ ToolStep(r)
    \/ ScanStep(r)
    \/ StreamEventFrom(r, PairEvents)
    \/ StreamEnd(r)

PairInit == InitWith(Requests, PairUserIds, Messages)
PairNext == \E r \in Requests : PairStep(r)
PairSpec == PairInit /\ [][PairNext]_vars

\* The variables of invocation r.
Locals(r) ==
    <<pc[r], user_id[r], user_message[r], user_res[r], resp[r], resp0[r], tool_calls[r],
      tool_outputs[r], idx[r], yielded[r], backend[r], dispatched[r], events[r]>>

\* What invocation r was given: its arguments, the decision response and
\* the stream events received, and how far it has run.
Received(r) ==
    <<user_id[r], user_message[r], resp0[r], events[r], pc[r], idx[r]>>

\* What invocation r did: fragments, dispatches, outputs, backend requests.
Observable(r) ==
    <<yielded[r], dispatched[r], tool_outputs[r], backend[r], resp[r]>>

\* C11: two invocations, run one after the other or interleaved, do not
\* influence each other: every step changes the variables of one invocation
\* only and leaves the store alone, and two invocations given the same
\* arguments and the same backend responses, at the same point of their
\* run, have yielded the same fragments and made the same dispatches and
\* backend requests.
C11_Stateless ==
    /\ [](\A r1, r2 \in Requests :
            Received(r1) = Received(r2) => Observable(r1) = Observable(r2))
    /\ [][ /\ \E r \in Requests : \A o \in Requests \ {r} : Locals(o)' = Locals(o)
           /\ USERS' = USERS
           /\ MEDICATIONS' = MEDICATIONS ]_vars

C11_Witness ==
    /\ user_id[1] = user_id[2]
    /\ user_message[1] = user_message[2]
    /\ resp0[1] = resp0[2]
    /\ pc[1] = "done" /\ pc[2] = "done"
    /\ events[1] = <<Delta("a")>> /\ events[2] = <<Delta("a")>>
    /\ Len(dispatched[1]) = 2
    /\ yielded[1] = <<DeltaFragment("a")>>
    /\ yielded[2] = yielded[1]

\* ------------------------------------------------------------------------
\* Direct callers of the Tool Layer (test_tools.py calls the tools this way)
\* ------------------------------------------------------------------------
agent_vars == <<pc, user_id, user_message, user_res, resp, resp0, tool_calls,
                tool_outputs, idx, yielded, backend, dispatched, events>>

UpperChar(c) ==
    IF \E i \in 1..Len(LowerChars) : LowerChars[i] = c
    THEN UpperChars[CHOOSE i \in 1..Len(LowerChars) : LowerChars[i] = c]
    ELSE c

\* str.upper()
Upper(s) == [i \in 1..Len(s) |-> UpperChar(s[i])]

\* The spellings of a name a caller may pass: as stored, upper case, lower
\* case, each bare or with whitespace before, after or on both sides.
Spellings(s) ==
    LET cased == {s, Upper(s), Lower(s)}
    IN  UNION {{c, <<" ">> \o c, c \o <<"\t">>, <<"\n", " ">> \o c \o <<" ">>} : c \in cased}

StoredNames == {DB_MEDICATIONS[i].mname : i \in 1..Len(DB_MEDICATIONS)}
\* Names that match no medication: unknown, empty, blank, a prefix, a name
\* with whitespace inside, a name with a letter too many.
OtherNames ==
    { Aspirin, <<>>, <<" ">>, <<" ", "\t">>,
      SubSeq(Amoxicillin, 1, Len(Amoxicillin) - 1),
      SubSeq(Metformin, 1, 3) \o <<" ">> \o SubSeq(Metformin, 4, Len(Metformin)),
      Lower(Ibuprofen) \o <<"e">> }
ToolNames == UNION {Spellings(s) : s \in StoredNames} \cup OtherNames

StoredUserIds == {DB_USERS[i].user_id : i \in 1..Len(DB_USERS)}
ToolUserIds == StoredUserIds \cup {U002Padded, <<"\t">> \o U003, U999, Upper(U001), <<>>, <<" ">>}

\* get_user handing out the stored prescriptions list itself.
get_user_shares_NoCopy(users, uid) ==
    {[part |-> "prescriptions", at |-> i] : i \in {FindUserIndex(users, Strip(uid))} \ {0}}

\* The parts of a get_user result that are objects of the store:
\* list(user.get("prescriptions", [])) builds a new list.
get_user_shares(users, uid) == {}

\* The parts of a get_medication_by_name result that are objects of the
\* store: dict(med.get("dosage_instruction", {})) builds a new dict.
get_medication_by_name_shares(meds, name) == {}

CallGetUser(uids) ==
    /\ t_call.op = "none"
    /\ \E uid \in uids :
           /\ t_call' = [op |-> "get_user", uid |-> uid, arg |-> <<>>, as_returned |-> TRUE]
           /\ t_result' = Returned(get_user(USERS, uid))
           /\ t_shared' = get_user_shares(USERS, uid)
           /\ UNCHANGED <<USERS, MEDICATIONS, agent_vars>>

CallGetMedicationByName(names) ==
    /\ t_call.op = "none"
    /\ \E name \in names :
           /\ t_call' = [op |-> "get_medication_by_name", uid |-> <<>>, arg |-> name, as_returned |-> TRUE]
           /\ t_result' = get_medication_by_name(MEDICATIONS, PStr(name))
           /\ t_shared' = get_medication_by_name_shares(MEDICATIONS, PStr(name))
           /\ UNCHANGED <<USERS, MEDICATIONS, agent_vars>>

CallCheckStock(names) ==
    /\ t_call.op = "none"
    /\ \E name \in names :
           /\ t_call' = [op |-> "check_stock", uid |-> <<>>, arg |-> name, as_returned |-> TRUE]
           /\ t_result' = check_stock(MEDICATIONS, PStr(name))
           /\ t_shared' = {}
           /\ UNCHANGED <<USERS, MEDICATIONS, agent_vars>>

CallCheckPrescription(uids, names) ==
    /\ t_call.op = "none"
    /\ \E uid \in uids, name \in names :
           /\ t_call' = [op |-> "check_prescription", uid |-> uid, arg |-> name, as_returned |-> TRUE]
           /\ t_result' = check_prescription(USERS, MEDICATIONS, PStr(uid), PStr(name))
           /\ t_shared' = {}
           /\ UNCHANGED <<USERS, MEDICATIONS, agent_vars>>

\* The caller clears the prescriptions list of the user record it holds; the
\* store's list changes with it when it is the same object.
ClearPrescriptions ==
    /\ t_call.op = "get_user"
    /\ t_result.val.found
    /\ t_result.val.user.prescriptions # <<>>
    /\ t_result' = [t_result EXCEPT !.val.user.prescriptions = <<>>]
    /\ t_call' = [t_call EXCEPT !.as_returned = FALSE]
    /\ USERS' = [i \in 1..Len(USERS) |->
                    IF [part |-> "prescriptions", at |-> i] \in t_shared
                    THEN [USERS[i] EXCEPT !.prescriptions = <<>>]
                    ELSE USERS[i]]
    /\ UNCHANGED <<t_shared, MEDICATIONS, agent_vars>>

\* The caller overwrites an entry of the dosage record it holds.
OverwriteDosage ==
    /\ t_call.op = "get_medication_by_name"
    /\ ~t_result.raised
    /\ t_result.val.found
    /\ t_result.val.medication.dosage_instruction.dose_amount # "changed"
    /\ t_result' = [t_result EXCEPT !.val.medication.dosage_instruction.dose_amount = "changed"]
    /\ t_call' = [t_call EXCEPT !.as_returned = FALSE]
    /\ MEDICATIONS' = [i \in 1..Len(MEDICATIONS) |->
                          IF [part |-> "dosage_instruction", at |-> i] \in t_shared
                          THEN [MEDICATIONS[i] EXCEPT !.dosage_instruction.dose_amount = "changed"]
                          ELSE MEDICATIONS[i]]
    /\ UNCHANGED <<t_shared, USERS, agent_vars>>

\* Raw argument payloads a function_call item may carry: absent, a mapping,
\* a text that parses (to an object, an array, a string, a number, null), a
\* text that does not parse, a value of another type.
TextString == [ty |-> "str", text |-> [valid |-> TRUE, jt |-> "string", has_uid |-> FALSE]]
TextNumber == [ty |-> "str", text |-> [valid |-> TRUE, jt |-> "number"]]
Payloads ==
    { RawNone, RawInt, TextInvalid, TextNull, TextArray, TextString, TextNumber,
      RawDict(<<>>), RawDict(<<Pair("name", PStr(Amoxicillin))>>),
      TextObject(<<>>), TextObject(<<Pair("name", PStr(Amoxicillin))>>),
      TextObject(<<Pair("user_id", PStr(U003)), Pair("name", PStr(Amoxicillin))>>) }

\* A caller of _normalize_args (the tool loop is the one in the program).
CallNormalizeArgs(payloads) ==
    /\ t_call.op = "none"
    /\ \E raw \in payloads :
           /\ t_call' = [op |-> "_normalize_args", uid |-> <<>>, arg |-> <<>>,
                         as_returned |-> TRUE, raw |-> raw]
           /\ t_result' = Returned(_normalize_args(raw))
           /\ t_shared' = {}
           /\ UNCHANGED <<USERS, MEDICATIONS, agent_vars>>

\* The caller is done with the result it holds (test_tools.py prints it).
DropResult ==
    /\ t_call.op # "none"
    /\ t_call' = [op |-> "none"]
    /\ t_result' = NoneRec
    /\ t_shared' = {}
    /\ UNCHANGED <<USERS, MEDICATIONS, agent_vars>>

\* A caller of the four tools and of _normalize_args, with no invocation of
\* the agent.
ToolInit == InitWith({}, UserIds, Messages)
ToolNext ==
    \/ CallGetUser(ToolUserIds)
    \/ CallGetMedicationByName(ToolNames)
    \/ CallCheckStock(ToolNames)
    \/ CallCheckPrescription(ToolUserIds, ToolNames)
    \/ CallNormalizeArgs(Payloads)
    \/ ClearPrescriptions
    \/ OverwriteDosage
    \/ DropResult
ToolSpec == ToolInit /\ [][ToolNext]_vars

\* The stored medications a name matches: trimmed and lowercased, it equals
\* the lowercased stored name.
Matching(name) ==
    {i \in 1..Len(DB_MEDICATIONS) : Lower(DB_MEDICATIONS[i].mname) = Lower(Strip(name))}
KnownUsers(uid) ==
    {i \in 1..Len(DB_USERS) : uid # <<>> /\ DB_USERS[i].user_id = Strip(uid)}

\* C12: check_prescription, for a known user and a name matching a stored
\* medication ignoring case and surrounding whitespace, returns a success
\* envelope whose requires_prescription is the medication's flag and whose
\* user_has_prescription is true exactly when the medication's canonical
\* name, in lower case, is among the user's prescriptions in lower case;
\* the flag plays no part in user_has_prescription.
C12_CheckPrescription ==
    (/\ t_call.op = "check_prescription"
     /\ KnownUsers(t_call.uid) # {}
     /\ Matching(t_call.arg) # {})
    => /\ ~t_result.raised
       /\ \A u \in KnownUsers(t_call.uid), m \in Matching(t_call.arg) :
             /\ t_result.val.ok = TRUE
             /\ "error" \notin DOMAIN t_result.val
             /\ t_result.val.mname = DB_MEDICATIONS[m].mname
             /\ t_result.val.requires_prescription = DB_MEDICATIONS[m].requires_prescription
             /\ t_result.val.user_has_prescription =
                   (\E k \in 1..Len(DB_USERS[u].prescriptions) :
                       Lower(DB_USERS[u].prescriptions[k]) = Lower(DB_MEDICATIONS[m].mname))

\* A padded user id without a prescription asks for a prescription-only
\* medication in another spelling: required, and not held.
C12_Witness ==
    /\ t_call.op = "check_prescription"
    /\ t_call.uid = U002Padded
    /\ t_call.arg = <<"\n", " ">> \o Upper(Amoxicillin) \o <<" ">>
    /\ t_result.val.ok
    /\ t_result.val.requires_prescription
    /\ ~t_result.val.user_has_prescription

\* What get_medication_by_name and check_stock return for stored medication m.
MedicationData(op, m) ==
    IF op = "get_medication_by_name"
    THEN [found |-> TRUE, medication |-> DB_MEDICATIONS[m]]
    ELSE [found |-> TRUE, mname |-> DB_MEDICATIONS[m].mname, stock |-> DB_MEDICATIONS[m].stock]

\* C13: get_medication_by_name and check_stock return a NOT_FOUND error
\* envelope exactly when the name, trimmed and lowercased, equals no stored
\* medication's lowercased name (the empty name included); otherwise the
\* name matches one medication only and the result is that medication's
\* data, whatever the letter case and surrounding whitespace of the name.
C13_NameMatching ==
    (/\ t_call.op \in {"get_medication_by_name", "check_stock"}
     /\ t_call.as_returned)
    => /\ ~t_result.raised
       /\ (Matching(t_call.arg) = {})
             <=> (~t_result.val.found /\ ErrorCode(t_result.val) = "NOT_FOUND")
       /\ Matching(t_call.arg) # {}
             => /\ Cardinality(Matching(t_call.arg)) = 1
                /\ \A m \in Matching(t_call.arg) :
                      t_result.val = MedicationData(t_call.op, m)

\* A padded upper-case spelling of a stored name was looked up, and found.
C13_Witness ==
    /\ t_call.op = "check_stock"
    /\ t_call.arg = <<"\n", " ">> \o Upper(Cetirizine) \o <<" ">>
    /\ t_result.val.found
    /\ t_result.val.mname = Cetirizine
    /\ t_result.val.stock = 0

\* C14: _normalize_args returns a key/value mapping, and raises nothing, for
\* every raw argument payload: absent, a mapping, a text that parses, a text
\* that does not parse (the empty mapping), a value of another type.
C14_NormalizedMapping ==
    t_call.op = "_normalize_args"
    => /\ ~t_result.raised
       /\ IsDict(t_result.val)
       /\ (t_call.raw.ty = "str" /\ ~t_call.raw.text.valid) => t_result.val = PyDict(<<>>)

\* C15: tool execution leaves the decision call's output items unchanged:
\* each function-call item of the output sequence passed to the final call
\* has the name, the call id and the raw arguments it had when the backend
\* returned it, for text arguments and for mapping arguments.
C15_OutputItemsUnchanged ==
    \A r \in Requests : \A k \in FinalRequests(r) :
        LET base == backend[r][1].input
            passed == SubSeq(backend[r][k].input, Len(base) + 1, Len(base) + Len(resp0[r]))
        IN  \A i \in FunctionCallPositions(resp0[r]) :
               /\ passed[i].type = "function_call"
               /\ passed[i].name = resp0[r][i].name
               /\ passed[i].call_id = resp0[r][i].call_id
               /\ passed[i].arguments = resp0[r][i].arguments

\* The position in items of its k-th function-call item.
NthCall(items, k) ==
    CHOOSE p \in FunctionCallPositions(items) :
        Cardinality({q \in FunctionCallPositions(items) : q <= p}) = k

ShortCircuited(r) ==
    \E i \in 1..Len(yielded[r]) : yielded[r][i].kind \in {"user_not_found", "med_not_found"}

\* C16: tool calls are dispatched one at a time, in the order the decision
\* response lists its function-call items (other items skipped), each with
\* its output collected before the next starts; the decision call precedes
\* the first dispatch; the NOT_FOUND scan and every streaming call come
\* after all dispatches.
C16_DispatchOrder ==
    /\ [](\A r \in Requests :
            /\ Len(dispatched[r]) <= Cardinality(FunctionCallPositions(resp0[r]))
            /\ Len(tool_outputs[r]) = Len(dispatched[r])
            /\ \A k \in 1..Len(dispatched[r]) :
                  /\ dispatched[r][k].name = resp0[r][NthCall(resp0[r], k)].name
                  /\ tool_outputs[r][k].call_id = resp0[r][NthCall(resp0[r], k)].call_id
            /\ dispatched[r] # <<>> => DecisionRequests(r) = {1}
            /\ (pc[r] = "scan" \/ StreamRequests(r) # {} \/ ShortCircuited(r))
                  => Len(dispatched[r]) = Cardinality(FunctionCallPositions(resp0[r])))
    /\ [][\A r \in Requests :
            dispatched'[r] # dispatched[r]
            => /\ Len(dispatched'[r]) = Len(dispatched[r]) + 1
               /\ SubSeq(dispatched'[r], 1, Len(dispatched[r])) = dispatched[r]
               /\ backend'[r] = backend[r]
               /\ yielded'[r] = yielded[r]]_vars

\* Two calls of different tools were dispatched in the order of the
\* response, and the final stream is open.
C16_Witness ==
    /\ Len(resp0[1]) = 2
    /\ resp0[1][1].type = "function_call"
    /\ resp0[1][2].type = "function_call"
    /\ resp0[1][1].name # resp0[1][2].name
    /\ Len(dispatched[1]) = 2
    /\ dispatched[1][1].name = resp0[1][1].name
    /\ pc[1] = "stream_final"

\* C17: the final streaming call is issued only when the identity gate found
\* the user, the decision call returned at least one function-call item,
\* every one of those calls has a collected output item and no collected
\* envelope carries NOT_FOUND; never after a short-circuit message.
C17_FinalCallGuard ==
    /\ [](\A r \in Requests :
            FinalRequests(r) # {}
            => /\ user_res[r].found
               /\ KnownUsers(user_id[r]) # {}
               /\ FunctionCallPositions(resp0[r]) # {}
               /\ Len(tool_outputs[r]) = Cardinality(FunctionCallPositions(resp0[r]))
               /\ \A k \in 1..Len(tool_outputs[r]) :
                     /\ tool_outputs[r][k].type = "function_call_output"
                     /\ tool_outputs[r][k].call_id = resp0[r][NthCall(resp0[r], k)].call_id
                     /\ ErrorCode(tool_outputs[r][k].output.json) # "NOT_FOUND"
               /\ ~ShortCircuited(r))
    /\ [][\A r \in Requests :
            ShortCircuited(r) => backend'[r] = backend[r]]_vars

\* The final call was issued over two collected outputs, one of them an
\* error envelope other than NOT_FOUND.
C17_Witness ==
    /\ FinalRequests(1) # {}
    /\ Len(tool_outputs[1]) = 2
    /\ ErrorCode(tool_outputs[1][1].output.json) = "None"
    /\ ErrorCode(tool_outputs[1][2].output.json) = "UNKNOWN_TOOL"

\* ------------------------------------------------------------------------
\* One invocation over messages around the Hebrew block U+0590..U+05FF
\* ------------------------------------------------------------------------
\* Empty, Latin, Hebrew, the code points just outside and just inside both
\* ends of the block, and mixed messages with the Hebrew letter first, last
\* and between characters outside the block.
LangMessages ==
    { <<>>, EnglishMessage, HebrewMessage,
      <<1423>>, <<1424>>, <<1535>>, <<1536>>,
      <<1488, 104>>, <<104, 1488>>, <<104, 1423, 1536>>, <<1423, 1514, 1536>> }

LangInit == InitWith({1}, PairUserIds, LangMessages)
LangNext == PairStep(1)
LangSpec == LangInit /\ [][LangNext]_vars

\* Some character of the message is in U+0590..U+05FF (1424..1535).
HasHebrewChar(message) ==
    \E i \in 1..Len(message) : message[i] \in 1424..1535

\* C18: both short-circuit messages are in Hebrew exactly when the incoming
\* user message has at least one character in U+0590..U+05FF, in English
\* otherwise, whatever the user id, the lookup result, the tool names, the
\* tool arguments and the tool results.
C18_MessageLanguage ==
    \A r \in Requests : \A i \in 1..Len(yielded[r]) :
        yielded[r][i].kind \in {"user_not_found", "med_not_found"}
        => yielded[r][i].lang = IF HasHebrewChar(user_message[r]) THEN "he" ELSE "en"

\* A known user's message with a Hebrew letter after a Latin one got the
\* Hebrew medication-not-found message.
C18_Witness ==
    /\ user_message[1] = <<104, 1488>>
    /\ dispatched[1] # <<>>
    /\ user_res[1].found
    /\ yielded[1] = <<[kind |-> "med_not_found", lang |-> "he"]>>

\* ------------------------------------------------------------------------
\* Tool callers and one invocation of stream_agent_reply over one store
\* ------------------------------------------------------------------------
StoreUserIds == StoredUserIds \cup {U002Padded, U999}
StoreNames == StoredNames \cup {ParacetamolPadded, Aspirin}

StoreInit == InitWith({1}, PairUserIds, Messages)
StoreNext ==
    \/ CallGetUser(StoreUserIds)
    \/ CallGetMedicationByName(StoreNames)
    \/ CallCheckStock(StoreNames)
    \/ CallCheckPrescription(StoreUserIds, StoreNames)
    \/ ClearPrescriptions
    \/ OverwriteDosage
    \/ DropResult
    \/ PairStep(1)
StoreSpec == StoreInit /\ [][StoreNext]_vars

\* C19: the Lookup Store is read-only: whatever calls of the four tools and
\* steps of stream_agent_reply have been made, the stored users and
\* medications are as loaded; the records get_user and
\* get_medication_by_name return share no object with the store, so a
\* caller changing a returned prescriptions list or dosage record leaves
\* the store as it is.
C19_StoreReadOnly ==
    /\ USERS = DB_USERS
    /\ MEDICATIONS = DB_MEDICATIONS
    /\ t_shared = {}

\* A caller emptied the prescriptions list get_user gave it for u001, after
\* an invocation that dispatched tool calls has ended.
C19_Witness ==
    /\ t_call.op = "get_user"
    /\ t_call.uid = U001
    /\ ~t_call.as_returned
    /\ t_result.val.user.prescriptions = <<>>
    /\ USERS[1].prescriptions = <<Amoxicillin, Metformin>>
    /\ pc[1] = "done"
    /\ dispatched[1] # <<>>

\* C20: the internal-consistency branch is never taken: with the decision
\* response read twice unmodified in between, no invocation yields the
\* "internal error: missing tool call context" fragment, since extracted
\* tool calls imply a non-empty output sequence.
C20_NoInternalError ==
    \A r \in Requests :
        /\ tool_calls[r] # <<>> => resp[r] # <<>> /\ Len(resp[r]) = Len(resp0[r])
        /\ \A i \in 1..Len(yielded[r]) : yielded[r][i].kind # "internal_error"

\* The consistency test was passed with tool calls extracted: the final
\* stream is open and nothing has been yielded.
C20_Witness ==
    /\ pc[1] = "stream_final"
    /\ tool_calls[1] # <<>>
    /\ resp[1] # <<>>
    /\ FinalRequests(1) # {}
    /\ yielded[1] = <<>>

\* ------------------------------------------------------------------------
\* One invocation whose check_prescription calls name a user themselves
\* ------------------------------------------------------------------------
CheckPrescriptionFor(uid, name) ==
    <<Pair("user_id", PStr(uid)), Pair("name", PStr(name))>>

\* Decision responses with a supplied user_id: the user at the gate or
\* another, stored, padded, unknown or empty; with a name that matches a
\* medication or none; as text and as a mapping; alone, after a message
\* item, and next to a call that leaves user_id out.
SuppliedOutputs ==
    {WithCallIds(out) : out \in {
        <<FunctionCall("check_prescription", TextObject(CheckPrescriptionFor(U003, Amoxicillin)))>>,
        <<FunctionCall("check_prescription", RawDict(CheckPrescriptionFor(U003, Amoxicillin)))>>,
        <<FunctionCall("check_prescription", TextObject(CheckPrescriptionFor(U001, Metformin)))>>,
        <<FunctionCall("check_prescription",
                       TextObject(CheckPrescriptionFor(U002Padded, ParacetamolPadded)))>>,
        <<FunctionCall("check_prescription", TextObject(CheckPrescriptionFor(U001, Aspirin)))>>,
        <<FunctionCall("check_prescription", TextObject(CheckPrescriptionFor(U999, Amoxicillin)))>>,
        <<FunctionCall("check_prescription", TextObject(CheckPrescriptionFor(U999, Aspirin)))>>,
        <<FunctionCall("check_prescription", TextObject(CheckPrescriptionFor(<<>>, Aspirin)))>>,
        <<MessageItem,
          FunctionCall("check_prescription", RawDict(CheckPrescriptionFor(U999, Aspirin)))>>,
        <<FunctionCall("check_prescription", TextObject(<<Pair("name", PStr(Amoxicillin))>>)),
          FunctionCall("check_prescription", TextObject(CheckPrescriptionFor(U999, Aspirin)))>>,
        <<FunctionCall("check_prescription", TextObject(CheckPrescriptionFor(U003, Amoxicillin))),
          FunctionCall("check_stock", TextObject(<<Pair("name", PStr(Ibuprofen))>>))>> }}

SuppliedStep(r) ==
    \/ Gate(r)
    \/ DecisionCallFrom(r, SuppliedOutputs)
    \/ ToolStep(r)
    \/ ScanStep(r)
    \/ StreamEventFrom(r, PairEvents)
    \/ StreamEnd(r)

SuppliedInit == InitWith({1}, PairUserIds, Messages)
SuppliedNext == SuppliedStep(1)
SuppliedSpec == SuppliedInit /\ [][SuppliedNext]_vars

\* C21: the user_id injection never overwrites a supplied value: a
\* check_prescription call whose normalized arguments already have the key
\* user_id is dispatched with those arguments unchanged, also when the value
\* differs from the user id that passed the gate; the tool answers for the
\* supplied id, and the result is collected as an output item like any other.
C21_SuppliedUserIdKept ==
    \A r \in Requests : \A i \in 1..Len(dispatched[r]) :
        LET d == dispatched[r][i]
        IN  (/\ d.name = "check_prescription"
             /\ IsDict(d.normalized)
             /\ HasKey(d.normalized.map, "user_id"))
            => /\ d.args = d.normalized
               /\ Keys(d.args.map) = {"user_id", "name"}
                     => d.outcome = check_prescription(DB_USERS, DB_MEDICATIONS,
                                                       Get(d.normalized.map, "user_id"),
                                                       Get(d.normalized.map, "name"))
               /\ Len(tool_outputs[r]) >= i
               /\ tool_outputs[r][i].type = "function_call_output"
               /\ tool_outputs[r][i].call_id = resp0[r][NthCall(resp0[r], i)].call_id
               /\ ~d.outcome.raised => tool_outputs[r][i].output.json = d.outcome.val
               /\ resp[r][NthCall(resp0[r], i)] = resp0[r][NthCall(resp0[r], i)]

\* The user at the gate holds no prescription; the call names another user,
\* who holds one, and the answer is that user's.
C21_Witness ==
    \E i \in 1..Len(dispatched[1]) :
        /\ user_id[1] = U002Padded
        /\ dispatched[1][i].name = "check_prescription"
        /\ IsDict(dispatched[1][i].normalized)
        /\ HasKey(dispatched[1][i].normalized.map, "user_id")
        /\ Get(dispatched[1][i].args.map, "user_id") = PStr(U003)
        /\ dispatched[1][i].outcome.val.ok
        /\ dispatched[1][i].outcome.val.user_has_prescription
        /\ tool_outputs[1][i].output.json.user_has_prescription

\* A dispatched check_prescription call for a user id the store does not
\* have and a name that matches no medication.
UnknownUserUnknownName(d) ==
    /\ d.name = "check_prescription"
    /\ IsDict(d.args)
    /\ Keys(d.args.map) = {"user_id", "name"}
    /\ IsStr(Get(d.args.map, "user_id"))
    /\ IsStr(Get(d.args.map, "name"))
    /\ KnownUsers(Get(d.args.map, "user_id").s) = {}
    /\ Matching(Get(d.args.map, "name").s) = {}

\* C22: check_prescription checks the user before the medication: for an
\* unknown user id and a name matching no medication it returns
\* UNKNOWN_USER, not NOT_FOUND; a turn whose only tool call is such a call
\* yields no medication-not-found message and goes on to the final
\* streaming call.
C22_UserCheckedFirst ==
    \A r \in Requests :
        /\ \A i \in 1..Len(dispatched[r]) :
              UnknownUserUnknownName(dispatched[r][i])
              => /\ ~dispatched[r][i].outcome.raised
                 /\ dispatched[r][i].outcome.val.ok = FALSE
                 /\ ErrorCode(dispatched[r][i].outcome.val) = "UNKNOWN_USER"
                 /\ ErrorCode(tool_outputs[r][i].output.json) = "UNKNOWN_USER"
        /\ (/\ Cardinality(FunctionCallPositions(resp0[r])) = 1
            /\ Len(dispatched[r]) = 1
            /\ UnknownUserUnknownName(dispatched[r][1]))
           => /\ ~ShortCircuited(r)
              /\ pc[r] \in {"scan", "stream_final", "done"}
              /\ pc[r] # "scan" => FinalRequests(r) # {}

\* The only call of the turn asked about an unknown user and an unknown
\* medication; the final stream was opened and has delivered a fragment.
C22_Witness ==
    /\ Len(dispatched[1]) = 1
    /\ Len(tool_calls[1]) = 1
    /\ UnknownUserUnknownName(dispatched[1][1])
    /\ FinalRequests(1) # {}
    /\ yielded[1] = <<DeltaFragment("a")>>

\* The four ways an invocation completes.
EndedUserNotFound(r) ==
    pc[r] = "done" /\ \E i \in 1..Len(yielded[r]) : yielded[r][i].kind = "user_not_found"
EndedMedNotFound(r) ==
    pc[r] = "done" /\ \E i \in 1..Len(yielded[r]) : yielded[r][i].kind = "med_not_found"
EndedStreamError(r) ==
    pc[r] = "done" /\ \E i \in 1..Len(yielded[r]) : yielded[r][i].kind = "stream_error"
EndedStreamNormally(r) ==
    /\ pc[r] = "done"
    /\ StreamRequests(r) # {}
    /\ \A i \in 1..Len(yielded[r]) : yielded[r][i].kind = "delta"

OutcomesOf(r) ==
    {o \in {"user_not_found", "med_not_found", "stream_error", "stream_end"} :
        \/ o = "user_not_found" /\ EndedUserNotFound(r)
        \/ o = "med_not_found" /\ EndedMedNotFound(r)
        \/ o = "stream_error" /\ EndedStreamError(r)
        \/ o = "stream_end" /\ EndedStreamNormally(r)}

AtMostOneCallEach(r) ==
    /\ Cardinality(DecisionRequests(r)) <= 1
    /\ Cardinality(StreamRequests(r)) <= 1
    /\ \A d \in DecisionRequests(r), k \in StreamRequests(r) : d < k

\* The generator is suspended or running, with a step left to take.
CanStep(r) ==
    \/ pc[r] \in {"start", "decide", "scan"}
    \/ pc[r] = "tools" /\ idx[r] <= Len(tool_calls[r])
    \/ Streaming(r)

\* C23: in every invocation the Model Backend receives at most one decision
\* call and at most one streaming call, the decision call first; and the
\* invocation goes on, step by step, until it has completed in exactly one
\* of: user-not-found message, medication-not-found message, stream ended
\* normally, stream-error apology.
C23_OneOutcome ==
    \A r \in Requests :
        /\ AtMostOneCallEach(r)
        /\ pc[r] # "idle" =>
              \/ CanStep(r) /\ OutcomesOf(r) = {}
              \/ ~CanStep(r) /\ Cardinality(OutcomesOf(r)) = 1

====
